---- MODULE Spec2Model ----
(***************************************************************************)
(* tikky: a counter service.  Four HTTP handlers (api.Server) translate    *)
(* requests into calls on one shared Redis client: /write -> INCR,         *)
(* /read -> GET, /health -> PING, /metrics -> GET then PING.               *)
(*                                                                         *)
(* Every request runs on its own goroutine.  A handler is modelled as the  *)
(* steps between its blocking points: one step runs the handler from its   *)
(* entry up to and including the store executing the command, the next     *)
(* step resumes the handler with the command's result.  The store executes *)
(* one command at a time.                                                  *)
(*                                                                         *)
(* The counter lives in the store as a decimal string: INCR parses it,     *)
(* adds one and stores the new string; GET returns the string and the      *)
(* handler parses it with Int64().                                         *)
(***************************************************************************)
EXTENDS Integers, Sequences, FiniteSets, TLC

\* ------------------------------------------------------------------ bounds
\* Number of requests that arrive over one run of the server, of any path and
\* method.
MaxReq == 2

\* Number of requests that arrive over one run in which the clients only
\* send POST /write and GET /read.
MaxCounterReq == 3

\* Number of requests followed one by one in a run in which health checks that
\* are not followed come and go.
MaxPoolReq == 1

\* Number of requests that arrive over one run that ends with a signal.
MaxMainReq == 2

\* Number of requests that arrive over one run of reads mixed with probes.
MaxProbeReq == 3

\* Number of requests that arrive over one run in which the client may be
\* gone before the body is written.
MaxWireReq == 1

Max(S) == CHOOSE x \in S : \A y \in S : y <= x

Reqs ==
    1..Max({MaxReq, MaxCounterReq, MaxPoolReq, MaxMainReq, MaxProbeReq,
            MaxWireReq})

\* ------------------------------------------------------------- characters
\* A string is a sequence of one-character strings.
DigitChars == <<"0", "1", "2", "3", "4", "5", "6", "7", "8", "9">>

Digit(c) == \E d \in 1..Len(DigitChars) : DigitChars[d] = c

DigitOf(c) == (CHOOSE d \in 1..Len(DigitChars) : DigitChars[d] = c) - 1

RECURSIVE Digits(_)
Digits(n) ==
    IF n < 10 THEN <<DigitChars[n + 1]>>
    ELSE Digits(n \div 10) \o <<DigitChars[(n % 10) + 1]>>

\* The decimal string the store keeps for the integer n.
FormatInt(n) == IF n < 0 THEN <<"-">> \o Digits(-n) ELSE Digits(n)

RECURSIVE DigitsValue(_)
DigitsValue(s) ==
    IF Len(s) = 0 THEN 0
    ELSE 10 * DigitsValue(SubSeq(s, 1, Len(s) - 1)) + DigitOf(s[Len(s)])

AllDigits(s) == Len(s) > 0 /\ \A i \in 1..Len(s) : Digit(s[i])

\* ParseInt with the sign skipped and forgotten: the magnitude is returned.
ParseIntAbs(s) ==
    IF Len(s) = 0 THEN [ok |-> FALSE, val |-> 0]
    ELSE LET signed == s[1] \in {"-", "+"}
             body   == IF signed THEN SubSeq(s, 2, Len(s)) ELSE s
         IN  IF AllDigits(body)
             THEN [ok |-> TRUE, val |-> DigitsValue(body)]
             ELSE [ok |-> FALSE, val |-> 0]

\* strconv.ParseInt(s, 10, 64), as Int64() applies it to the reply of GET:
\* an optional sign, then one or more digits; leading zeros are accepted.
ParseInt(s) ==
    IF Len(s) = 0 THEN [ok |-> FALSE, val |-> 0]
    ELSE LET signed == s[1] \in {"-", "+"}
             body   == IF signed THEN SubSeq(s, 2, Len(s)) ELSE s
         IN  IF AllDigits(body)
             THEN [ok |-> TRUE,
                   val |-> IF s[1] = "-" THEN -DigitsValue(body)
                                         ELSE DigitsValue(body)]
             ELSE [ok |-> FALSE, val |-> 0]

\* The store's own reading of a value as an integer, as INCR applies it:
\* strict, no plus sign, no leading zero, no "-0".
String2ll(s) ==
    IF Len(s) = 0 THEN [ok |-> FALSE, val |-> 0]
    ELSE IF s = <<"0">> THEN [ok |-> TRUE, val |-> 0]
    ELSE LET neg  == s[1] = "-"
             body == IF neg THEN SubSeq(s, 2, Len(s)) ELSE s
         IN  IF AllDigits(body) /\ body[1] # "0"
             THEN [ok |-> TRUE,
                   val |-> IF neg THEN -DigitsValue(body) ELSE DigitsValue(body)]
             ELSE [ok |-> FALSE, val |-> 0]

\* ------------------------------------------------------------------ store
\* The value at the key "counter": absent, or a string.
Absent == [present |-> FALSE, val |-> <<>>]

Held(s) == [present |-> TRUE, val |-> s]

\* What may be at the key when the server starts: nothing, an integer some
\* earlier run left there, or a value that is not an integer at all.
InitialStores ==
    {Absent, Held(FormatInt(0)), Held(FormatInt(9)),
     Held(FormatInt(-1)), Held(<<"0", "7">>), Held(<<"x">>)}

\* Incr as DECR: the value goes down by one.
Decr(s) ==
    LET cur == IF s.present THEN String2ll(s.val) ELSE [ok |-> TRUE, val |-> 0]
    IN  IF cur.ok
        THEN [store |-> Held(FormatInt(cur.val - 1)), val |-> cur.val - 1,
              err |-> "nil"]
        ELSE [store |-> s, val |-> 0, err |-> "error"]

\* Incr that does not create the key: INCR of an absent key is an error.
IncrNoCreate(s) ==
    LET cur == IF s.present THEN String2ll(s.val) ELSE [ok |-> FALSE, val |-> 0]
    IN  IF cur.ok
        THEN [store |-> Held(FormatInt(cur.val + 1)), val |-> cur.val + 1,
              err |-> "nil"]
        ELSE [store |-> s, val |-> 0, err |-> "error"]

\* INCR key, executed by the store: an absent key counts as 0; the new
\* value is stored and returned.  A value that is not an integer is an error
\* and the key is left alone.
Incr(s) ==
    LET cur == IF s.present THEN String2ll(s.val) ELSE [ok |-> TRUE, val |-> 0]
    IN  IF cur.ok
        THEN [store |-> Held(FormatInt(cur.val + 1)), val |-> cur.val + 1,
              err |-> "nil"]
        ELSE [store |-> s, val |-> 0, err |-> "error"]

\* GET key, executed by the store: the string, or redis.Nil when absent.
Get(s) ==
    IF s.present THEN [val |-> s.val, err |-> "nil"]
    ELSE [val |-> <<>>, err |-> "redis.Nil"]

\* Int64 with the parse error dropped (val, _ := ...): a value that is not an
\* integer reads as 0.
Int64IgnoreErr(cmd) ==
    IF cmd.err # "nil" THEN [val |-> 0, err |-> cmd.err]
    ELSE [val |-> ParseInt(cmd.val).val, err |-> "nil"]

\* StringCmd.Int64(): the command's error if it has one, else the parse.
Int64(cmd) ==
    IF cmd.err # "nil" THEN [val |-> 0, err |-> cmd.err]
    ELSE LET p == ParseInt(cmd.val)
         IN  IF p.ok THEN [val |-> p.val, err |-> "nil"]
             ELSE [val |-> 0, err |-> "error"]

\* How a command can go on the way to the store and back: it is executed and
\* its reply arrives; it never reaches the store; or it is executed and the
\* reply is lost (timeout, broken connection, cancelled request context).
Fates == {"ok", "unsent", "reply_lost"}

\* GET and PING change nothing at the store: for them a lost reply and a
\* command that was never sent are the same failure.
ReadFates == {"ok", "unsent"}


\* ClientIncr with a retry: a command whose reply was lost is sent again and
\* the second reply is returned.
ClientIncrRetry(s, fate) ==
    IF fate = "unsent" THEN [store |-> s, val |-> 0, err |-> "error"]
    ELSE IF fate = "ok" THEN Incr(s)
    ELSE Incr(Incr(s).store)

\* Client.Incr(ctx, key).Result(): the value and error the handler gets, and
\* what the command did to the store.
ClientIncr(s, fate) ==
    IF fate = "unsent" THEN [store |-> s, val |-> 0, err |-> "error"]
    ELSE LET done == Incr(s)
         IN  IF fate = "ok" THEN done
             ELSE [store |-> done.store, val |-> 0, err |-> "error"]

\* Client.Get(ctx, key).Int64()
ClientGet(s, fate) ==
    IF fate = "ok" THEN Int64(Get(s)) ELSE [val |-> 0, err |-> "error"]

\* Client.Ping(ctx).Result(): only the error is used.
ClientPing(fate) == IF fate = "ok" THEN "nil" ELSE "error"

\* --------------------------------------------------------------- requests
Paths == {"/write", "/read", "/health", "/metrics"}

Methods == {"GET", "POST", "DELETE"}

StatusOK == 200
StatusMethodNotAllowed == 405
StatusInternalServerError == 500
StatusServiceUnavailable == 503

\* The response a handler has written so far: nothing yet.
NoBody == [empty |-> TRUE]

NoResponse == [ctype |-> "", status |-> 0, body |-> NoBody]

\* writeJSON: the header, the status, then the encoded value.
writeJSON(status, v) ==
    [ctype |-> "application/json", status |-> status, body |-> v]

writeJSONError(status, message) == writeJSON(status, [error |-> message])

\* The method each handler lets through.
ExpectedMethod(p) == IF p = "/write" THEN "POST" ELSE "GET"

\* Rejected with the test missing from WriteHandler.
RejectedReadsOnly(p, m) == p # "/write" /\ m # ExpectedMethod(p)

\* The first test of every handler: r.Method != http.MethodX.
Rejected(p, m) == m # ExpectedMethod(p)

MethodNotAllowed(p) ==
    writeJSONError(StatusMethodNotAllowed,
                   IF p = "/write" THEN "Only POST method is allowed"
                                   ELSE "Only GET method is allowed")

\* WriteReply answering with the value before the increment.
WriteReplyPre(v, e) ==
    IF e # "nil"
    THEN writeJSONError(StatusInternalServerError, "Failed to update counter")
    ELSE writeJSON(StatusOK, [value |-> v - 1])

\* WriteReply with the return after the error missing: the value is encoded
\* after the error.
WriteReplyNoReturn(v, e) ==
    IF e # "nil"
    THEN writeJSON(StatusInternalServerError,
                   [error |-> "Failed to update counter", value |-> v])
    ELSE writeJSON(StatusOK, [value |-> v])

\* WriteReply that does not look at the error of Incr.
WriteReplyIgnoreErr(v, e) == writeJSON(StatusOK, [value |-> v])

\* WriteHandler after Incr has returned.
WriteReply(v, e) ==
    IF e # "nil"
    THEN writeJSONError(StatusInternalServerError, "Failed to update counter")
    ELSE writeJSON(StatusOK, [value |-> v])

\* ReadReply treating every error as an absent key.
ReadReplyZero(v, e) ==
    IF e # "nil" THEN writeJSON(StatusOK, [value |-> 0])
    ELSE writeJSON(StatusOK, [value |-> v])

\* ReadReply without the redis.Nil case: an absent key is an error.
ReadReplyNilIsError(v, e) ==
    IF e # "nil"
    THEN writeJSONError(StatusInternalServerError, "Failed to read counter")
    ELSE writeJSON(StatusOK, [value |-> v])

\* ReadReply without the else-if: only redis.Nil is looked at.
ReadReplyNoElse(v, e) ==
    IF e = "redis.Nil" THEN writeJSON(StatusOK, [value |-> 0])
    ELSE writeJSON(StatusOK, [value |-> v])

\* ReadHandler after Get has returned.
ReadReply(v, e) ==
    IF e = "redis.Nil" THEN writeJSON(StatusOK, [value |-> 0])
    ELSE IF e # "nil"
    THEN writeJSONError(StatusInternalServerError, "Failed to read counter")
    ELSE writeJSON(StatusOK, [value |-> v])

\* HealthReply that never looks at the error of Ping.
HealthReplyAlwaysOK(e) ==
    writeJSON(StatusOK, [status |-> "healthy", service |-> "tikky-api",
                         redis |-> "connected", vibe |-> "immaculate"])

\* HealthHandler after Ping has returned.
HealthReply(e) ==
    IF e # "nil"
    THEN writeJSONError(StatusServiceUnavailable, "Redis unavailable")
    ELSE writeJSON(StatusOK, [status |-> "healthy", service |-> "tikky-api",
                              redis |-> "connected", vibe |-> "immaculate"])

\* MetricsValue without the -1 sentinel: every error exports 0.
MetricsValueZero(v, e) == IF e # "nil" THEN 0 ELSE v

\* The calls a handler makes on its ResponseWriter, in order.
SetHeader(ct) == [op |-> "Header", ctype |-> ct, status |-> 0, ok |-> TRUE]

WriteHeader(st) ==
    [op |-> "WriteHeader", ctype |-> "", status |-> st, ok |-> TRUE]

Write(ok) == [op |-> "Write", ctype |-> "", status |-> 0, ok |-> ok]

\* writeJSONCalls with the header set after the status is written.
writeJSONCallsStatusFirst(rp, ok) ==
    <<WriteHeader(rp.status), SetHeader(rp.ctype), Write(ok)>>

\* writeJSON, as calls on the ResponseWriter: the Content-Type, the status,
\* then the encoder writes the body; an error of the encoder is logged.
writeJSONCalls(rp, ok) ==
    <<SetHeader(rp.ctype), WriteHeader(rp.status), Write(ok)>>

\* MetricsHandler: the value it exports for the result of Get.
MetricsValue(v, e) ==
    IF e = "redis.Nil" THEN 0 ELSE IF e # "nil" THEN -1 ELSE v

\* MetricsHandler: the header and status it commits before it pings.
MetricsHeader ==
    [ctype |-> "text/plain; version=0.0.4; charset=utf-8",
     status |-> StatusOK, body |-> NoBody]

\* MetricsHandler: the exposition text, by its three metric lines.
MetricsBody(v, e) ==
    [tikky_counter_total |-> v,
     tikky_redis_connected |-> IF e # "nil" THEN 0 ELSE 1,
     tikky_build_info |-> 1]

\* MetricsPing as a circuit breaker: no ping after a failed Get.
MetricsPingSkip(e, fate) ==
    IF e \notin {"nil", "redis.Nil"} THEN [called |-> FALSE, err |-> "error"]
    ELSE [called |-> TRUE, err |-> ClientPing(fate)]

\* MetricsHandler: the ping it issues after Get, whatever error e Get gave.
MetricsPing(e, fate) == [called |-> TRUE, err |-> ClientPing(fate)]

\* ------------------------------------------------------------------- pool
\* redis.Options.PoolSize
PoolSize == 20

\* ConnFree for a client that serves one command at a time.
ConnFreeSingle(busy) == busy < 1

\* A command gets a connection when fewer than PoolSize are checked out.
ConnFree(busy) == busy < PoolSize

\* ---------------------------------------------------------------- process
\* NewClient that does not check the ping.
NewClientNoPing(fate) == "nil"

\* NewClient: the error of its ping of the store.
NewClient(fate) == IF fate = "ok" THEN "nil" ELSE "error"

\* Shutdown replaced by server.Close, which does not wait for the handlers.
ShutdownDoneEarly(inflight) == TRUE

\* server.Shutdown returns nil once no handler is in flight.
ShutdownDone(inflight) == inflight = 0

\* ------------------------------------------------------------------ state
VARIABLES
    store,     \* the value at the counter key in the store
    issued,    \* how many requests have arrived
    pc,        \* pc[r]: where request r's handler stands
    path,      \* path[r], method[r]: the request line
    method,
    val,       \* val[r], err[r]: the handler's locals after a store call
    err,
    resp,      \* resp[r]: what the handler has written to its ResponseWriter
    wire,      \* wire[r]: the calls made on the ResponseWriter, in order
    mainpc,    \* where main stands: "boot", "wait", "shutdown", "exit"
    listener,  \* the listener: "off", "starting", "listening", "closed"
    exitCode,  \* the exit status of the process (-1 while it runs)
    closes,    \* how many times redisClient.Close has run
    others,    \* health checks in flight that are not followed one by one
    \* history, read by the properties only
    initial,   \* the value at the key when the server started
    bootPing,  \* how the ping of NewClient went ("none" before it)
    calls,     \* calls[r]: the store commands request r has issued
    floor,     \* floor[r]: values of the writes answered 200 before r arrived
    lastIncr,  \* the request whose INCR the store executed last (0: none)
    produced,  \* the integers INCR has stored so far
    writeLog,  \* the values of the 200 answers to POST /write, in order
    seqOnly    \* every accepted write so far ran alone and succeeded

hvars == <<pc, path, method, val, err, resp, wire>>

gvars ==
    <<initial, bootPing, calls, floor, lastIncr, produced, writeLog, seqOnly>>

lvars == <<mainpc, listener, exitCode, closes, others>>

vars == <<store, issued, pc, path, method, val, err, resp, wire,
          mainpc, listener, exitCode, closes, others,
          initial, bootPing, calls, floor, lastIncr, produced, writeLog,
          seqOnly>>

\* The process runs: neither os.Exit nor the return of main has happened.
Alive == mainpc # "exit"

\* The handlers that wait for the reply of a store command.
Waiting == {r \in Reqs : pc[r] \in {"incr", "get", "ping", "mget", "mping"}}

\* The connections of the pool that are checked out.
Busy ==
    others + Cardinality({r \in Waiting : calls[r][Len(calls[r])].conn})

\* The handlers that have not returned.
InFlight == others + Cardinality({r \in Reqs : pc[r] \notin {"idle", "done"}})

\* One store command of a request: its fate, the value at the key before and
\* after it, whose INCR the store had executed last, and whether it got a
\* connection of the pool.
Call(cmd, fate, new) ==
    [cmd |-> cmd, fate |-> fate, at |-> store, new |-> new, last |-> lastIncr,
     conn |-> ConnFree(Busy)]

\* A command needs a connection of the pool; without one it fails unsent.
CanCall(fate) == ConnFree(Busy) \/ fate = "unsent"

\* A POST /write that its handler accepted and has not answered yet.
WriteInFlight(r) ==
    /\ pc[r] \notin {"idle", "done"}
    /\ path[r] = "/write"
    /\ ~Rejected(path[r], method[r])

Answered(r) == pc[r] = "done"

\* The writes answered 200 so far.
WritesOK == {w \in Reqs : /\ Answered(w) /\ path[w] = "/write"
                          /\ resp[w].status = StatusOK}

Init ==
    /\ store \in InitialStores
    /\ issued = 0
    /\ pc = [r \in Reqs |-> "idle"]
    /\ path = [r \in Reqs |-> "/read"]
    /\ method = [r \in Reqs |-> "GET"]
    /\ val = [r \in Reqs |-> 0]
    /\ err = [r \in Reqs |-> "nil"]
    /\ resp = [r \in Reqs |-> NoResponse]
    /\ wire = [r \in Reqs |-> <<>>]
    /\ mainpc = "boot"
    /\ listener = "off"
    /\ exitCode = -1
    /\ closes = 0
    /\ others = 0
    /\ initial = store
    /\ bootPing = "none"
    /\ calls = [r \in Reqs |-> <<>>]
    /\ floor = [r \in Reqs |-> {}]
    /\ lastIncr = 0
    /\ produced = {}
    /\ writeLog = <<>>
    /\ seqOnly = TRUE

\* main up to the start of the listener goroutine: NewClient pings the
\* store; an error is fatal, else the routes are set, the goroutine is
\* started and main waits for a signal.
Boot(fate) ==
    /\ mainpc = "boot"
    /\ IF NewClient(fate) # "nil"
       THEN /\ mainpc' = "exit"
            /\ exitCode' = 1
            /\ listener' = listener
       ELSE /\ mainpc' = "wait"
            /\ exitCode' = exitCode
            /\ listener' = "starting"
    /\ bootPing' = fate
    /\ UNCHANGED <<store, issued, hvars, closes, others, initial, calls,
                   floor, lastIncr, produced, writeLog, seqOnly>>

\* The listener goroutine: ListenAndServe binds the port and serves, or
\* fails and ends the process.
ListenAndServe(ok) ==
    /\ Alive
    /\ listener = "starting"
    /\ IF ok
       THEN /\ listener' = "listening"
            /\ UNCHANGED <<mainpc, exitCode>>
       ELSE /\ listener' = "closed"
            /\ mainpc' = "exit"
            /\ exitCode' = 1
    /\ UNCHANGED <<store, issued, hvars, closes, others, gvars>>

\* main receives SIGINT or SIGTERM and calls server.Shutdown, which closes
\* the listener first.
Signal ==
    /\ mainpc = "wait"
    /\ mainpc' = "shutdown"
    /\ listener' = "closed"
    /\ UNCHANGED <<store, issued, hvars, exitCode, closes, others, gvars>>

\* server.Shutdown returns nil: main returns, its deferred Close runs and
\* the process ends with status 0.
ShutdownReturn ==
    /\ mainpc = "shutdown"
    /\ ShutdownDone(InFlight)
    /\ mainpc' = "exit"
    /\ exitCode' = 0
    /\ closes' = closes + 1
    /\ UNCHANGED <<store, issued, hvars, listener, others, gvars>>

\* server.Shutdown gives up after its 5 seconds with handlers still in
\* flight: os.Exit(1).
ShutdownTimeout ==
    /\ mainpc = "shutdown"
    /\ InFlight > 0
    /\ mainpc' = "exit"
    /\ exitCode' = 1
    /\ UNCHANGED <<store, issued, hvars, listener, closes, others, gvars>>

\* A request arrives and the server hands it to a new goroutine.
Arrive(r, p, m) ==
    /\ Alive
    /\ listener = "listening"
    /\ pc[r] = "idle"
    /\ r = issued + 1
    /\ issued' = r
    /\ pc' = [pc EXCEPT ![r] = "recv"]
    /\ path' = [path EXCEPT ![r] = p]
    /\ method' = [method EXCEPT ![r] = m]
    /\ floor' = [floor EXCEPT ![r] = {resp[w].body.value : w \in WritesOK}]
    /\ seqOnly' = (seqOnly /\ ~(/\ p = "/write"
                                /\ ~Rejected(p, m)
                                /\ \E w \in Reqs : WriteInFlight(w)))
    /\ UNCHANGED <<store, val, err, resp, wire, lvars, initial, bootPing, calls,
                   lastIncr, produced, writeLog>>

\* A health check that is not followed one by one arrives and pings the
\* store on a connection of the pool.
OtherPing ==
    /\ Alive
    /\ listener = "listening"
    /\ ConnFree(Busy)
    /\ others' = others + 1
    /\ UNCHANGED <<store, issued, hvars, mainpc, listener, exitCode, closes,
                   gvars>>

\* Such a health check gets its reply and returns.
OtherReturn ==
    /\ Alive
    /\ others > 0
    /\ others' = others - 1
    /\ UNCHANGED <<store, issued, hvars, mainpc, listener, exitCode, closes,
                   gvars>>

\* Reject with the method test of WriteHandler after its Incr: the request
\* is answered 405 and the key has been incremented.
RejectLate(r) ==
    /\ Alive
    /\ pc[r] = "recv"
    /\ Rejected(path[r], method[r])
    /\ store' = IF path[r] = "/write" THEN Incr(store).store ELSE store
    /\ resp' = [resp EXCEPT ![r] = MethodNotAllowed(path[r])]
    /\ wire' = [wire EXCEPT
                  ![r] = writeJSONCalls(MethodNotAllowed(path[r]), TRUE)]
    /\ pc' = [pc EXCEPT ![r] = "done"]
    /\ UNCHANGED <<issued, path, method, val, err, lvars, gvars>>

\* Any handler, on a method it does not serve: 405 and return; ok tells
\* whether the encoder could write the body.
RejectEnc(r, ok) ==
    /\ Alive
    /\ pc[r] = "recv"
    /\ Rejected(path[r], method[r])
    /\ resp' = [resp EXCEPT ![r] = MethodNotAllowed(path[r])]
    /\ wire' = [wire EXCEPT
                  ![r] = writeJSONCalls(MethodNotAllowed(path[r]), ok)]
    /\ pc' = [pc EXCEPT ![r] = "done"]
    /\ UNCHANGED <<store, issued, path, method, val, err, lvars, gvars>>

\* The same with the body written.
Reject(r) == RejectEnc(r, TRUE)

\* WriteHandler up to the store executing INCR.
WriteHandlerIncr(r, fate) ==
    /\ Alive
    /\ pc[r] = "recv"
    /\ path[r] = "/write"
    /\ ~Rejected(path[r], method[r])
    /\ CanCall(fate)
    /\ LET c == ClientIncr(store, fate)
       IN  /\ store' = c.store
           /\ val' = [val EXCEPT ![r] = c.val]
           /\ err' = [err EXCEPT ![r] = c.err]
           /\ calls' = [calls EXCEPT
                           ![r] = Append(@, Call("Incr", fate, c.store))]
           /\ lastIncr' = IF fate # "unsent" /\ Incr(store).err = "nil"
                          THEN r ELSE lastIncr
           /\ produced' = IF fate # "unsent" /\ Incr(store).err = "nil"
                          THEN produced \cup {Incr(store).val} ELSE produced
    /\ pc' = [pc EXCEPT ![r] = "incr"]
    /\ UNCHANGED <<issued, path, method, resp, wire, lvars, initial, bootPing,
                   floor, writeLog, seqOnly>>

\* WriteHandler from the return of Incr to its own return.
WriteHandlerReplyEnc(r, ok) ==
    /\ Alive
    /\ pc[r] = "incr"
    /\ resp' = [resp EXCEPT ![r] = WriteReply(val[r], err[r])]
    /\ wire' = [wire EXCEPT
                  ![r] = writeJSONCalls(WriteReply(val[r], err[r]), ok)]
    /\ pc' = [pc EXCEPT ![r] = "done"]
    /\ writeLog' = IF WriteReply(val[r], err[r]).status = StatusOK
                   THEN Append(writeLog, WriteReply(val[r], err[r]).body.value)
                   ELSE writeLog
    /\ seqOnly' = (seqOnly /\ WriteReply(val[r], err[r]).status = StatusOK)
    /\ UNCHANGED <<store, issued, path, method, val, err, lvars, initial,
                   bootPing, calls, floor, lastIncr, produced>>

\* The same with the body written.
WriteHandlerReply(r) == WriteHandlerReplyEnc(r, TRUE)

\* ReadHandler up to the store executing GET.
ReadHandlerGet(r, fate) ==
    /\ Alive
    /\ pc[r] = "recv"
    /\ path[r] = "/read"
    /\ ~Rejected(path[r], method[r])
    /\ CanCall(fate)
    /\ LET c == ClientGet(store, fate)
       IN  /\ val' = [val EXCEPT ![r] = c.val]
           /\ err' = [err EXCEPT ![r] = c.err]
    /\ calls' = [calls EXCEPT ![r] = Append(@, Call("Get", fate, store))]
    /\ pc' = [pc EXCEPT ![r] = "get"]
    /\ UNCHANGED <<store, issued, path, method, resp, wire, lvars, initial,
                   bootPing, floor, lastIncr, produced, writeLog, seqOnly>>

\* ReadHandler from the return of Get to its own return.
ReadHandlerReplyEnc(r, ok) ==
    /\ Alive
    /\ pc[r] = "get"
    /\ resp' = [resp EXCEPT ![r] = ReadReply(val[r], err[r])]
    /\ wire' = [wire EXCEPT
                  ![r] = writeJSONCalls(ReadReply(val[r], err[r]), ok)]
    /\ pc' = [pc EXCEPT ![r] = "done"]
    /\ UNCHANGED <<store, issued, path, method, val, err, lvars, gvars>>

\* The same with the body written.
ReadHandlerReply(r) == ReadHandlerReplyEnc(r, TRUE)

\* HealthHandler up to the store answering PING.
HealthHandlerPing(r, fate) ==
    /\ Alive
    /\ pc[r] = "recv"
    /\ path[r] = "/health"
    /\ ~Rejected(path[r], method[r])
    /\ CanCall(fate)
    /\ err' = [err EXCEPT ![r] = ClientPing(fate)]
    /\ calls' = [calls EXCEPT ![r] = Append(@, Call("Ping", fate, store))]
    /\ pc' = [pc EXCEPT ![r] = "ping"]
    /\ UNCHANGED <<store, issued, path, method, val, resp, wire, lvars, initial,
                   bootPing, floor, lastIncr, produced, writeLog, seqOnly>>

\* HealthHandler from the return of Ping to its own return.
HealthHandlerReplyEnc(r, ok) ==
    /\ Alive
    /\ pc[r] = "ping"
    /\ resp' = [resp EXCEPT ![r] = HealthReply(err[r])]
    /\ wire' = [wire EXCEPT ![r] = writeJSONCalls(HealthReply(err[r]), ok)]
    /\ pc' = [pc EXCEPT ![r] = "done"]
    /\ UNCHANGED <<store, issued, path, method, val, err, lvars, gvars>>

\* The same with the body written.
HealthHandlerReply(r) == HealthHandlerReplyEnc(r, TRUE)

\* MetricsHandler up to the store executing GET.
MetricsHandlerGet(r, fate) ==
    /\ Alive
    /\ pc[r] = "recv"
    /\ path[r] = "/metrics"
    /\ ~Rejected(path[r], method[r])
    /\ CanCall(fate)
    /\ LET c == ClientGet(store, fate)
       IN  /\ val' = [val EXCEPT ![r] = c.val]
           /\ err' = [err EXCEPT ![r] = c.err]
    /\ calls' = [calls EXCEPT ![r] = Append(@, Call("Get", fate, store))]
    /\ pc' = [pc EXCEPT ![r] = "mget"]
    /\ UNCHANGED <<store, issued, path, method, resp, wire, lvars, initial,
                   bootPing, floor, lastIncr, produced, writeLog, seqOnly>>

\* MetricsHandler from the return of Get: it settles the exported value,
\* commits the header and the status, and pings the store.
MetricsHandlerPing(r, fate) ==
    /\ Alive
    /\ pc[r] = "mget"
    /\ val' = [val EXCEPT ![r] = MetricsValue(val[r], err[r])]
    /\ resp' = [resp EXCEPT ![r] = MetricsHeader]
    /\ wire' = [wire EXCEPT ![r] = <<SetHeader(MetricsHeader.ctype),
                                      WriteHeader(MetricsHeader.status)>>]
    /\ LET p == MetricsPing(err[r], fate)
       IN  /\ err' = [err EXCEPT ![r] = p.err]
           /\ calls' = [calls EXCEPT ![r] =
                           IF p.called THEN Append(@, Call("Ping", fate, store))
                                       ELSE @]
    /\ pc' = [pc EXCEPT ![r] = "mping"]
    /\ UNCHANGED <<store, issued, path, method, lvars, initial, bootPing,
                   floor, lastIncr, produced, writeLog, seqOnly>>

\* MetricsHandler from the return of Ping: it writes the body and returns.
MetricsHandlerReplyEnc(r, ok) ==
    /\ Alive
    /\ pc[r] = "mping"
    /\ resp' = [resp EXCEPT ![r].body = MetricsBody(val[r], err[r])]
    /\ wire' = [wire EXCEPT ![r] = Append(@, Write(ok))]
    /\ pc' = [pc EXCEPT ![r] = "done"]
    /\ UNCHANGED <<store, issued, path, method, val, err, lvars, gvars>>

\* The same with the body written.
MetricsHandlerReply(r) == MetricsHandlerReplyEnc(r, TRUE)

\* The server boots and serves requests of every path and method; nobody
\* stops it.
Next ==
    \/ \E fate \in ReadFates : Boot(fate)
    \/ \E ok \in BOOLEAN : ListenAndServe(ok)
    \/ \E r \in 1..MaxReq, p \in Paths, m \in Methods : Arrive(r, p, m)
    \/ \E r \in Reqs : Reject(r)
    \/ \E r \in Reqs, fate \in Fates : WriteHandlerIncr(r, fate)
    \/ \E r \in Reqs : WriteHandlerReply(r)
    \/ \E r \in Reqs, fate \in ReadFates : ReadHandlerGet(r, fate)
    \/ \E r \in Reqs : ReadHandlerReply(r)
    \/ \E r \in Reqs, fate \in ReadFates : HealthHandlerPing(r, fate)
    \/ \E r \in Reqs : HealthHandlerReply(r)
    \/ \E r \in Reqs, fate \in ReadFates : MetricsHandlerGet(r, fate)
    \/ \E r \in Reqs, fate \in ReadFates : MetricsHandlerPing(r, fate)
    \/ \E r \in Reqs : MetricsHandlerReply(r)

Spec == Init /\ [][Next]_vars

\* The clients only increment and read, with the right methods, and nobody
\* stops the server.
CounterPaths == {"/write", "/read"}

CounterNext ==
    \/ \E fate \in ReadFates : Boot(fate)
    \/ \E ok \in BOOLEAN : ListenAndServe(ok)
    \/ \E r \in 1..MaxCounterReq, p \in CounterPaths :
          Arrive(r, p, ExpectedMethod(p))
    \/ \E r \in Reqs, fate \in Fates : WriteHandlerIncr(r, fate)
    \/ \E r \in Reqs : WriteHandlerReply(r)
    \/ \E r \in Reqs, fate \in ReadFates : ReadHandlerGet(r, fate)
    \/ \E r \in Reqs : ReadHandlerReply(r)

CounterSpec == Init /\ [][CounterNext]_vars

\* The clients increment and read while health checks, as many as the pool
\* has connections and more, come and go.
PoolNext ==
    \/ \E fate \in ReadFates : Boot(fate)
    \/ \E ok \in BOOLEAN : ListenAndServe(ok)
    \/ \E r \in 1..MaxPoolReq, p \in CounterPaths :
          Arrive(r, p, ExpectedMethod(p))
    \/ OtherPing
    \/ OtherReturn
    \/ \E r \in Reqs, fate \in Fates : WriteHandlerIncr(r, fate)
    \/ \E r \in Reqs : WriteHandlerReply(r)
    \/ \E r \in Reqs, fate \in ReadFates : ReadHandlerGet(r, fate)
    \/ \E r \in Reqs : ReadHandlerReply(r)

PoolSpec == Init /\ [][PoolNext]_vars

\* The whole life of the process: it boots, serves requests sent with the
\* right method and is stopped by a signal.
MainNext ==
    \/ \E fate \in ReadFates : Boot(fate)
    \/ \E ok \in BOOLEAN : ListenAndServe(ok)
    \/ Signal
    \/ ShutdownReturn
    \/ ShutdownTimeout
    \/ \E r \in 1..MaxMainReq, p \in Paths : Arrive(r, p, ExpectedMethod(p))
    \/ \E r \in Reqs, fate \in Fates : WriteHandlerIncr(r, fate)
    \/ \E r \in Reqs : WriteHandlerReply(r)
    \/ \E r \in Reqs, fate \in ReadFates : ReadHandlerGet(r, fate)
    \/ \E r \in Reqs : ReadHandlerReply(r)
    \/ \E r \in Reqs, fate \in ReadFates : HealthHandlerPing(r, fate)
    \/ \E r \in Reqs : HealthHandlerReply(r)
    \/ \E r \in Reqs, fate \in ReadFates : MetricsHandlerGet(r, fate)
    \/ \E r \in Reqs, fate \in ReadFates : MetricsHandlerPing(r, fate)
    \/ \E r \in Reqs : MetricsHandlerReply(r)

MainSpec == Init /\ [][MainNext]_vars

\* Reads, with health checks, metrics scrapes and rejected writes among them;
\* nobody increments.
ProbeKinds ==
    {<<"/read", "GET">>, <<"/health", "GET">>, <<"/metrics", "GET">>,
     <<"/write", "DELETE">>}

ProbeNext ==
    \/ \E fate \in ReadFates : Boot(fate)
    \/ \E ok \in BOOLEAN : ListenAndServe(ok)
    \/ \E r \in 1..MaxProbeReq, k \in ProbeKinds : Arrive(r, k[1], k[2])
    \/ \E r \in Reqs : Reject(r)
    \/ \E r \in Reqs, fate \in ReadFates : ReadHandlerGet(r, fate)
    \/ \E r \in Reqs : ReadHandlerReply(r)
    \/ \E r \in Reqs, fate \in ReadFates : HealthHandlerPing(r, fate)
    \/ \E r \in Reqs : HealthHandlerReply(r)
    \/ \E r \in Reqs, fate \in ReadFates : MetricsHandlerGet(r, fate)
    \/ \E r \in Reqs, fate \in ReadFates : MetricsHandlerPing(r, fate)
    \/ \E r \in Reqs : MetricsHandlerReply(r)

ProbeSpec == Init /\ [][ProbeNext]_vars

\* Every path with the method it serves and one request it rejects, the
\* client reading the answer or gone before the body is written.
WireKinds ==
    {<<p, ExpectedMethod(p)>> : p \in Paths} \cup {<<"/metrics", "POST">>}

\* One step of the handler of request r.
Handle(r) ==
    \/ \E ok \in BOOLEAN : RejectEnc(r, ok)
    \/ \E fate \in Fates : WriteHandlerIncr(r, fate)
    \/ \E ok \in BOOLEAN : WriteHandlerReplyEnc(r, ok)
    \/ \E fate \in ReadFates : ReadHandlerGet(r, fate)
    \/ \E ok \in BOOLEAN : ReadHandlerReplyEnc(r, ok)
    \/ \E fate \in ReadFates : HealthHandlerPing(r, fate)
    \/ \E ok \in BOOLEAN : HealthHandlerReplyEnc(r, ok)
    \/ \E fate \in ReadFates : MetricsHandlerGet(r, fate)
    \/ \E fate \in ReadFates : MetricsHandlerPing(r, fate)
    \/ \E ok \in BOOLEAN : MetricsHandlerReplyEnc(r, ok)

WireNext ==
    \/ \E fate \in ReadFates : Boot(fate)
    \/ \E ok \in BOOLEAN : ListenAndServe(ok)
    \/ \E r \in 1..MaxWireReq, k \in WireKinds : Arrive(r, k[1], k[2])
    \/ \E r \in Reqs : Handle(r)

\* The scheduler does not leave every goroutine that can take a step
\* waiting for ever, and a store command returns within the timeouts of the
\* client.
WireSpec ==
    /\ Init
    /\ [][WireNext]_vars
    /\ WF_vars(\E r \in Reqs : Handle(r))

TypeOK ==
    /\ issued \in 0..Cardinality(Reqs)
    /\ others \in 0..PoolSize
    /\ \A r \in Reqs : pc[r] \in {"idle", "recv", "incr", "get", "ping",
                                  "mget", "mping", "done"}


\* ------------------------------------------------------------- properties
\* The integers the counter can hold within the bounds of the model.
CounterValues == -1..(9 + Cardinality(Reqs))

\* The key holds the integer n, an absent key standing for 0.
HoldsInt(s, n) == s = Held(FormatInt(n)) \/ (n = 0 /\ s = Absent)

\* Request r has arrived as an accepted POST /write, GET /read, GET /health.
IsWrite(r) == pc[r] # "idle" /\ path[r] = "/write" /\ method[r] = "POST"

IsRead(r) == pc[r] # "idle" /\ path[r] = "/read" /\ method[r] = "GET"

IsHealth(r) == pc[r] # "idle" /\ path[r] = "/health" /\ method[r] = "GET"

IsMetrics(r) == pc[r] # "idle" /\ path[r] = "/metrics" /\ method[r] = "GET"

\* Request r has arrived with a method its path does not serve.
WrongMethod(r) ==
    /\ pc[r] # "idle"
    /\ \/ path[r] = "/write" /\ method[r] # "POST"
       \/ path[r] \in {"/read", "/health", "/metrics"} /\ method[r] # "GET"

\* The requests whose INCR reached the store.
IncrSent == {r \in Reqs : /\ calls[r] # <<>>
                          /\ calls[r][1].cmd = "Incr"
                          /\ calls[r][1].fate # "unsent"}

\* C1: as long as every POST /write has run alone and has been answered 200,
\* the k-th answer carries the value held at the key when the server started
\* plus k.
C1_SequentialWrites ==
    seqOnly =>
        \A n \in CounterValues :
            HoldsInt(initial, n) =>
                \A k \in 1..Len(writeLog) : writeLog[k] = n + k

\* Three writes, one after the other, on a key that held 9: 10, 11, 12.
C1_Witness ==
    /\ seqOnly
    /\ initial = Held(FormatInt(9))
    /\ Len(writeLog) = 3

\* C2: under any interleaving, a write answered 200 has issued one INCR, and
\* its answer is the value the key held right after that INCR and not the one
\* before it; no two writes answered 200 carry the same value; and the key
\* holds its initial value plus the number of INCRs that reached the store.
C2_ConcurrentWrites ==
    /\ \A w \in WritesOK :
          /\ Len(calls[w]) = 1
          /\ calls[w][1].cmd = "Incr"
          /\ calls[w][1].new = Held(FormatInt(resp[w].body.value))
          /\ calls[w][1].at # calls[w][1].new
          /\ \A n \in CounterValues :
                HoldsInt(calls[w][1].at, n) => resp[w].body.value = n + 1
    /\ \A w1, w2 \in WritesOK :
          w1 # w2 => resp[w1].body.value # resp[w2].body.value
    /\ \A n \in CounterValues :
          /\ HoldsInt(initial, n)
          /\ IncrSent # {}
          => store = Held(FormatInt(n + Cardinality(IncrSent)))

\* Two writes in flight at once, the later one incremented first, both
\* answered 200.
C2_Witness ==
    \E w1, w2 \in WritesOK :
        /\ w1 < w2
        /\ resp[w1].body.value > resp[w2].body.value

\* C3: a read answered 200 carries a value no smaller than the value of any
\* write that had been answered 200 when the read arrived.
C3_ReadAfterWrites ==
    \A r \in Reqs :
        (IsRead(r) /\ Answered(r) /\ resp[r].status = StatusOK)
            => \A v \in floor[r] : resp[r].body.value >= v

\* A read that arrived after a write was answered, while another write that
\* arrived before the read is still in flight.
C3_Witness ==
    \E r, w \in Reqs :
        /\ IsRead(r) /\ Answered(r) /\ resp[r].status = StatusOK
        /\ floor[r] # {}
        /\ w < r /\ WriteInFlight(w)

\* C4: the value of a read answered 200 is 0 for a key that has been absent
\* since the start, or the value some INCR stored, or the value the key held
\* when the server started.
C4_ReadObservesProduced ==
    \A r \in Reqs :
        (IsRead(r) /\ Answered(r) /\ resp[r].status = StatusOK)
            => LET at == calls[r][1].at
                   v  == resp[r].body.value
               IN  \/ at = Absent /\ initial = Absent /\ v = 0
                   \/ \E q \in produced : at = Held(FormatInt(q)) /\ v = q
                   \/ /\ at = initial
                      /\ initial.present
                      /\ ParseInt(initial.val) = [ok |-> TRUE, val |-> v]

\* A read answered with the value of an INCR whose own write has not been
\* answered yet.
C4_Witness ==
    \E r, w \in Reqs :
        /\ IsRead(r) /\ Answered(r) /\ resp[r].status = StatusOK
        /\ pc[w] = "incr" /\ lastIncr = w
        /\ store = Held(FormatInt(resp[r].body.value))
        /\ store # initial

\* C5: a request with a method its path does not serve issues no store
\* command and is answered 405 with the message that names the method.
C5_MethodRejected ==
    \A r \in Reqs :
        WrongMethod(r) =>
            /\ calls[r] = <<>>
            /\ pc[r] \in {"recv", "done"}
            /\ Answered(r) =>
                  /\ resp[r].ctype = "application/json"
                  /\ resp[r].status = 405
                  /\ resp[r].body =
                        [error |-> IF path[r] = "/write"
                                   THEN "Only POST method is allowed"
                                   ELSE "Only GET method is allowed"]

\* A GET /write and a POST /metrics both answered, the key untouched.
C5_Witness ==
    \E r1, r2 \in Reqs :
        /\ WrongMethod(r1) /\ Answered(r1) /\ path[r1] = "/write"
        /\ WrongMethod(r2) /\ Answered(r2) /\ path[r2] = "/metrics"
        /\ store = initial

\* C6: a GET /read whose GET found the key absent is answered 200 with
\* {"value": 0}; no read answered 500 had been told the key was absent.
C6_AbsentReadsZero ==
    \A r \in Reqs :
        (IsRead(r) /\ Answered(r)) =>
            /\ (calls[r][1].fate = "ok" /\ calls[r][1].at = Absent) =>
                  /\ resp[r].ctype = "application/json"
                  /\ resp[r].status = 200
                  /\ resp[r].body = [value |-> 0]
            /\ resp[r].status = 500 =>
                  (calls[r][1].fate # "ok" \/ calls[r][1].at # Absent)

\* A read of a key that nothing has ever incremented, answered.
C6_Witness ==
    \E r \in Reqs :
        /\ IsRead(r) /\ Answered(r)
        /\ calls[r][1].fate = "ok"
        /\ calls[r][1].at = Absent
        /\ produced = {}

\* C7: a GET /read whose GET found the integer v at the key is answered 200
\* with {"value": v}; if the last INCR before that GET was the one of a write
\* answered 200, the read carries the value of that write.
C7_PresentReadsValue ==
    \A r \in Reqs :
        (IsRead(r) /\ Answered(r) /\ calls[r][1].fate = "ok") =>
            /\ \A v \in CounterValues :
                  calls[r][1].at = Held(FormatInt(v)) =>
                      /\ resp[r].ctype = "application/json"
                      /\ resp[r].status = 200
                      /\ resp[r].body = [value |-> v]
            /\ \A w \in WritesOK :
                  calls[r][1].last = w =>
                      /\ resp[r].status = 200
                      /\ resp[r].body = [value |-> resp[w].body.value]

\* A write answered {"value": 10}, then a read that arrives and is answered.
C7_Witness ==
    \E r \in Reqs, w \in WritesOK :
        /\ IsRead(r) /\ Answered(r) /\ calls[r][1].fate = "ok"
        /\ calls[r][1].last = w
        /\ resp[w].body.value \in floor[r]
        /\ resp[w].body.value = 10

\* C8: a POST /write whose Incr returned an error is answered 500 with
\* {"error": "Failed to update counter"} and nothing else in the body.
C8_WriteError ==
    \A r \in Reqs :
        (IsWrite(r) /\ Answered(r)
              /\ (err[r] # "nil" \/ calls[r][1].fate # "ok")) =>
            /\ resp[r].ctype = "application/json"
            /\ resp[r].status = 500
            /\ resp[r].body = [error |-> "Failed to update counter"]

\* A write answered after its INCR was executed and the reply was lost.
C8_Witness ==
    \E r \in Reqs :
        /\ IsWrite(r) /\ Answered(r)
        /\ calls[r][1].fate = "reply_lost"
        /\ calls[r][1].new # calls[r][1].at

C10_Health ==
    \A r \in Reqs :
        (IsHealth(r) /\ Answered(r)) =>
            /\ Len(calls[r]) = 1 /\ calls[r][1].cmd = "Ping"
            /\ resp[r].ctype = "application/json"
            /\ calls[r][1].fate = "ok" =>
                  /\ resp[r].status = 200
                  /\ resp[r].body.status = "healthy"
                  /\ resp[r].body.redis = "connected"
                  /\ resp[r].body.vibe = "immaculate"
            /\ calls[r][1].fate # "ok" =>
                  /\ resp[r].status = 503
                  /\ resp[r].body = [error |-> "Redis unavailable"]

\* Two health checks on the same key, one answered 200 and one 503.
C10_Witness ==
    \E r1, r2 \in Reqs :
        /\ IsHealth(r1) /\ Answered(r1) /\ resp[r1].status = 200
        /\ IsHealth(r2) /\ Answered(r2) /\ resp[r2].status = 503
        /\ calls[r1][1].at = calls[r2][1].at

\* C11: a GET /metrics is answered 200 as text/plain whatever its two store
\* calls gave: the body has the three metrics tikky_counter_total,
\* tikky_redis_connected and tikky_build_info; the total is the integer at
\* the key when Get succeeded, 0 when the key was absent and -1 when Get
\* failed or the value was not an integer; connected is 1 when the ping
\* succeeded and 0 when it failed.
C11_MetricsAlways200 ==
    \A r \in Reqs :
        /\ (IsMetrics(r) /\ pc[r] = "mping") => resp[r].status = 200
        /\ (IsMetrics(r) /\ Answered(r)) =>
              LET get  == calls[r][1]
                  ping == calls[r][2]
                  b    == resp[r].body
              IN  /\ resp[r].status = 200
                  /\ resp[r].ctype = "text/plain; version=0.0.4; charset=utf-8"
                  /\ get.cmd = "Get" /\ ping.cmd = "Ping"
                  /\ DOMAIN b = {"tikky_counter_total",
                                  "tikky_redis_connected", "tikky_build_info"}
                  /\ b.tikky_build_info = 1
                  /\ b.tikky_counter_total =
                        IF get.fate # "ok" THEN -1
                        ELSE IF get.at = Absent THEN 0
                        ELSE IF ParseInt(get.at.val).ok
                        THEN ParseInt(get.at.val).val
                        ELSE -1
                  /\ \A v \in CounterValues :
                        (get.fate = "ok" /\ get.at = Held(FormatInt(v)))
                            => b.tikky_counter_total = v
                  /\ b.tikky_redis_connected =
                        IF ping.fate = "ok" THEN 1 ELSE 0

\* One scrape whose Get failed and whose ping succeeded, and one that read
\* the 9 at the key and whose ping failed.
C11_Witness ==
    \E r1, r2 \in Reqs :
        /\ IsMetrics(r1) /\ Answered(r1)
        /\ resp[r1].body.tikky_counter_total = -1
        /\ resp[r1].body.tikky_redis_connected = 1
        /\ IsMetrics(r2) /\ Answered(r2)
        /\ resp[r2].body.tikky_counter_total = 9
        /\ resp[r2].body.tikky_redis_connected = 0

\* C12: two GET /read answered 200 carry the same value when no INCR was
\* executed between their GETs, whatever GET /health, GET /metrics and
\* rejected requests ran among them.
C12_RepeatedReads ==
    \A r1, r2 \in Reqs :
        /\ IsRead(r1) /\ Answered(r1) /\ resp[r1].status = StatusOK
        /\ IsRead(r2) /\ Answered(r2) /\ resp[r2].status = StatusOK
        /\ calls[r1][1].last = calls[r2][1].last
        => resp[r1].body = resp[r2].body

\* A read answered 9, then a DELETE /write answered 405 and a scrape
\* answered, then a second read answered.
C12_Witness ==
    \E r1, r2, r3 \in Reqs :
        /\ r1 # r2 /\ r1 < r3 /\ r2 < r3
        /\ IsRead(r1) /\ Answered(r1) /\ resp[r1].body = [value |-> 9]
        /\ WrongMethod(r2) /\ path[r2] = "/write" /\ Answered(r2)
        /\ IsRead(r3) /\ Answered(r3) /\ resp[r3].status = StatusOK
        /\ calls[r3][1].last = calls[r1][1].last

\* C13 as stated: on a key that was absent at the start, the first POST
\* /write answered 200 carries 1, in whatever order the writes are counted.
C13_FirstWriteIsOne ==
    (initial = Absent /\ WritesOK # {})
        => \E w \in WritesOK : resp[w].body = [value |-> 1]

\* C13, amended: on a key that was absent at the start, the key stays absent
\* exactly as long as no INCR has reached the store; the INCR that finds it
\* absent stores 1, and its POST /write carries 1 if it is answered 200; a
\* write answered 200 carries 1 exactly when its INCR found the key absent,
\* and at most one does; a read answered 200 carries 0 when its GET ran
\* before every INCR, and 1 when its GET found the 1.
C13_CreatedByIncr ==
    initial = Absent =>
        /\ store = Absent <=> IncrSent = {}
        /\ \A w \in IncrSent :
              calls[w][1].at = Absent =>
                  /\ calls[w][1].new = Held(FormatInt(1))
                  /\ (Answered(w) /\ resp[w].status = StatusOK)
                        => resp[w].body = [value |-> 1]
        /\ \A w1, w2 \in WritesOK :
              /\ resp[w1].body = [value |-> 1] <=> calls[w1][1].at = Absent
              /\ resp[w1].body = resp[w2].body => w1 = w2
        /\ \A r \in Reqs :
              (IsRead(r) /\ Answered(r) /\ calls[r][1].fate = "ok") =>
                  /\ calls[r][1].last = 0 <=> calls[r][1].at = Absent
                  /\ calls[r][1].at = Absent
                        => resp[r] = writeJSON(StatusOK, [value |-> 0])
                  /\ calls[r][1].at = Held(FormatInt(1))
                        => resp[r] = writeJSON(StatusOK, [value |-> 1])

\* On a key that was absent: a read answered 0, then a write answered 1,
\* then a read that arrived after that answer and is answered 1.
C13_Witness ==
    \E r0, w, r1 \in Reqs :
        /\ initial = Absent
        /\ r0 < w /\ w < r1
        /\ IsRead(r0) /\ resp[r0] = writeJSON(StatusOK, [value |-> 0])
        /\ w \in WritesOK /\ resp[w].body = [value |-> 1]
        /\ IsRead(r1) /\ resp[r1] = writeJSON(StatusOK, [value |-> 1])
        /\ floor[r1] = {1}

\* C14: the listener is started, and a request is handled, only after the
\* ping of NewClient has succeeded; when that ping fails the process exits
\* with status 1, the listener never started and no request handled.
C14_ServeAfterPing ==
    /\ (listener # "off" \/ issued > 0) => bootPing = "ok"
    /\ bootPing \notin {"none", "ok"} =>
          /\ mainpc = "exit"
          /\ exitCode = 1
          /\ listener = "off"
          /\ issued = 0
          /\ \A r \in Reqs : pc[r] = "idle" /\ calls[r] = <<>>

\* The store did not answer the ping at boot and the process has exited.
C14_Witness ==
    /\ bootPing = "unsent"
    /\ mainpc = "exit"
    /\ exitCode = 1

\* C15: once NewClient has succeeded, the process ends with the client
\* closed exactly once, by whichever path it ends.
C15_ClosedOnce ==
    (bootPing = "ok" /\ mainpc = "exit") => closes = 1

\* Request r issues its next store command and the store executes it.
IssueOK(r) ==
    \/ WriteHandlerIncr(r, "ok")
    \/ ReadHandlerGet(r, "ok")
    \/ HealthHandlerPing(r, "ok")
    \/ MetricsHandlerGet(r, "ok")

\* Request r takes the reply of its store command and goes on.
TakeReply(r) ==
    \/ WriteHandlerReply(r)
    \/ ReadHandlerReply(r)
    \/ HealthHandlerReply(r)
    \/ MetricsHandlerPing(r, "ok")
    \/ MetricsHandlerReply(r)

\* C16 as stated: whatever number of requests wait for the store, a request
\* that has arrived can issue its own store command.
C16_NeverBlocks ==
    \A r \in Reqs : (Alive /\ pc[r] = "recv") => ENABLED IssueOK(r)

\* C16, amended: while fewer than PoolSize store commands are outstanding, a
\* request that has arrived can issue its store command whoever else waits,
\* and a request whose command was executed can take the reply and complete;
\* with all PoolSize connections checked out it cannot issue its command.
C16_NoBlockingWithinPool ==
    \A r \in Reqs :
        /\ (Alive /\ pc[r] = "recv" /\ Busy < PoolSize) => ENABLED IssueOK(r)
        /\ (Alive /\ pc[r] = "recv" /\ Busy >= PoolSize)
              => ~ENABLED IssueOK(r)
        /\ (Alive /\ r \in Waiting) => ENABLED TakeReply(r)
        /\ Busy <= PoolSize

\* Nineteen health checks wait for the store; a request arrived, got the
\* twentieth connection, had its command executed and was answered.
C16_Witness ==
    \E r \in Reqs :
        /\ others = PoolSize - 1
        /\ Answered(r)
        /\ calls[r][1].conn
        /\ calls[r][1].fate = "ok"
        /\ resp[r].status = StatusOK

\* The commands request r has issued, in order.
Cmds(r) == [i \in 1..Len(calls[r]) |-> calls[r][i].cmd]

\* The commands an accepted request issues before it returns.
Script(r) ==
    IF path[r] = "/write" THEN <<"Incr">>
    ELSE IF path[r] = "/read" THEN <<"Get">>
    ELSE IF path[r] = "/health" THEN <<"Ping">>
    ELSE <<"Get", "Ping">>

C18_OnlyIncrement ==
    [][store' # store =>
          /\ \E r \in Reqs :
                /\ pc[r] = "recv" /\ pc'[r] = "incr"
                /\ path[r] = "/write" /\ method[r] = "POST"
          /\ \E n \in CounterValues :
                /\ HoldsInt(store, n)
                /\ store' = Held(FormatInt(n + 1))]_vars

\* On a key that held 9: a DELETE /write answered 405 and a POST /write
\* answered 10, the key at 10.
C18_Witness ==
    \E r, w \in Reqs :
        /\ initial = Held(FormatInt(9))
        /\ WrongMethod(r) /\ path[r] = "/write" /\ Answered(r)
        /\ w \in WritesOK /\ resp[w].body = [value |-> 10]
        /\ store = Held(FormatInt(10))

\* The requests that have issued an Incr, sent or not.
IncrIssued == {r \in Reqs : calls[r] # <<>> /\ calls[r][1].cmd = "Incr"}

\* C19: with the integer n at the key at the start (0 when absent), under
\* any interleaving with commands that fail unsent and commands whose reply
\* is lost, the key holds an integer k with n + (writes answered 200) <= k <=
\* n + (writes that issued an Incr); each Incr moved the key by one or not
\* at all, and the Incr of a write answered 200 moved it.
C19_CounterBounds ==
    /\ \A n \in CounterValues :
          HoldsInt(initial, n) =>
              \E k \in n..(n + Cardinality(Reqs)) :
                  /\ HoldsInt(store, k)
                  /\ n + Cardinality(WritesOK) <= k
                  /\ k <= n + Cardinality(IncrIssued)
    /\ \A w \in IncrIssued :
          /\ \/ calls[w][1].new = calls[w][1].at
             \/ \E m \in CounterValues :
                   /\ HoldsInt(calls[w][1].at, m)
                   /\ calls[w][1].new = Held(FormatInt(m + 1))
          /\ w \in WritesOK => calls[w][1].new # calls[w][1].at

\* Three writes on a key that held 9: one answered 200, one answered 500
\* whose INCR was executed, one answered 500 whose INCR never left; the key
\* is at 11, strictly between the two bounds.
C19_Witness ==
    \E w1, w2, w3 \in Reqs :
        /\ initial = Held(FormatInt(9))
        /\ w1 \in WritesOK
        /\ IsWrite(w2) /\ Answered(w2) /\ calls[w2][1].fate = "reply_lost"
        /\ resp[w2].status = StatusInternalServerError
        /\ IsWrite(w3) /\ Answered(w3) /\ calls[w3][1].fate = "unsent"
        /\ resp[w3].status = StatusInternalServerError
        /\ store = Held(FormatInt(11))

\* C20: Close has run only when server.Shutdown had returned nil, with every
\* handler returned: no request stands between its arrival and its answer
\* once the client is closed, and Close runs at most once.
C20_CloseAfterHandlers ==
    closes > 0 =>
        /\ closes = 1
        /\ mainpc = "exit" /\ exitCode = 0
        /\ listener = "closed"
        /\ InFlight = 0
        /\ \A r \in Reqs : pc[r] \in {"idle", "done"} /\ r \notin Waiting

\* Two requests were answered after their store commands, then the signal
\* came, Shutdown returned and the client was closed.
C20_Witness ==
    /\ closes = 1
    /\ \E r1, r2 \in Reqs :
          /\ r1 # r2
          /\ Answered(r1) /\ calls[r1] # <<>>
          /\ Answered(r2) /\ calls[r2] # <<>>

\* The calls made on the ResponseWriter of request r, by name.
Ops(r) == [i \in 1..Len(wire[r]) |-> wire[r][i].op]

\* How many times the handler of request r has written a status.
Statuses(r) ==
    Cardinality({i \in 1..Len(wire[r]) : wire[r][i].op = "WriteHeader"})

\* What the ResponseWriter of request r shows in every state: at most one
\* status; nothing before the handler answers, except that GET /metrics has
\* set its Content-Type and written its 200 while it pings; and on return
\* the Content-Type, then one status, then the body, the status being the
\* one the handler chose whether or not the body could be written.
WireOrder(r) ==
    /\ Statuses(r) <= 1
    /\ pc[r] \in {"idle", "recv", "incr", "get", "ping", "mget"}
          => wire[r] = <<>>
    /\ pc[r] = "mping" => Ops(r) = <<"Header", "WriteHeader">>
    /\ Answered(r) =>
          /\ Ops(r) = <<"Header", "WriteHeader", "Write">>
          /\ Statuses(r) = 1
          /\ wire[r][1].ctype = resp[r].ctype
          /\ wire[r][1].ctype \in {"application/json",
                                   "text/plain; version=0.0.4; charset=utf-8"}
          /\ wire[r][2].status = resp[r].status
          /\ wire[r][2].status \in
                {StatusOK, StatusMethodNotAllowed, StatusInternalServerError,
                 StatusServiceUnavailable}

\* A step keeps what a ResponseWriter holds and only adds to it.
WireGrows(r) ==
    /\ Len(wire'[r]) >= Len(wire[r])
    /\ SubSeq(wire'[r], 1, Len(wire[r])) = wire[r]

\* C21: on every path and method the handler of a request that has arrived
\* returns (again and again every handler that was started has returned); it
\* writes no status twice and has written exactly one when it returns, after
\* the Content-Type and before the body; a status once written stays, also
\* when the body cannot be written.
C21_OneStatusInOrder ==
    /\ [](\A r \in Reqs : WireOrder(r))
    /\ [][\A r \in Reqs : WireGrows(r)]_vars
    /\ []<>(\A r \in Reqs : pc[r] # "idle" => Answered(r))

\* A scrape whose Get and ping both failed, answered to a client that was
\* gone when the body was written: the 200 stands.
C21_Witness ==
    \E r \in Reqs :
        /\ IsMetrics(r) /\ Answered(r)
        /\ calls[r][1].fate = "unsent"
        /\ calls[r][2].fate = "unsent"
        /\ ~wire[r][3].ok
        /\ wire[r][2].status = StatusOK

====
